---- MODULE Spec2Model ----
(***************************************************************************)
(* LlrbNode<K, V>: the node of an immutable left-leaning red-black tree    *)
(* (Firestore/core/src/firebase/firestore/immutable/llrb_node.h).          *)
(*                                                                         *)
(* A node is a handle (std::shared_ptr<Rep>) to a Rep.  The model keeps    *)
(* the Reps in a heap: a function from node identities to Rep records.     *)
(* A node identity is a pair <<owner, index>>: the index-th Rep allocated  *)
(* by owner.  Every operation of the class is an operator on heaps; the    *)
(* operators are used both by the whole-call operators (insert,            *)
(* InnerInsert, FixUp) and by the step actions of the threads.             *)
(***************************************************************************)
EXTENDS Integers, Sequences, FiniteSets, TLC

(***************************************************************************)
(* Bounds of the model.                                                    *)
(***************************************************************************)
MaxKey == 6         \* keys of the sequential caller are 1..MaxKey
ThreadKeys == 3     \* keys used by the concurrent threads are 1..ThreadKeys
InitLen == 3        \* the shared tree of the threads is built by at most InitLen inserts
ShapeKeys == 8      \* keys of the caller that stores one value are 1..ShapeKeys

Keys == 1..MaxKey
\* K is int and V is std::string.  The code copies and stores values and never
\* looks into them: two values tell an overwritten value from the one before.
Vals == {"a", "b"}
TKeys == 1..ThreadKeys
Threads == {1, 2}

(***************************************************************************)
(* enum Color : unsigned int { Black, Red }                                *)
(***************************************************************************)
Black == 0
Red == 1

\* size_ is a 31-bit field (size_type size_ : 31).  A tree of the model holds at
\* most MaxKey entries, so no size reaches the width and sizes are plain naturals.

\* The comparator the callers pass: std::less on integer keys.
comparator(a, b) == a < b

(***************************************************************************)
(* The heap.                                                               *)
(***************************************************************************)
\* The identity of the Rep EmptyRep() returns.
EmptyNode == <<0, 0>>

\* The Rep built by EmptyRep(): Black, size 0, left_ and right_ wired to itself.
EmptyRep ==
  [entry |-> <<0, "">>, color |-> Black, size |-> 0,
   left |-> EmptyNode, right |-> EmptyNode]

EmptyHeap == EmptyNode :> EmptyRep

\* The identity std::make_shared gives the next Rep allocated by owner c.
Fresh(h, c) == <<c, 1 + Cardinality({n \in DOMAIN h : n[1] = c})>>

\* LlrbNode(Rep rep): rep_{std::make_shared<Rep>(std::move(rep))}
Alloc(h, c, rep) == h @@ (Fresh(h, c) :> rep)

\* Rep(entry, color, left, right): size_ is computed from the children.
Rep4(h, entry, color, left, right) ==
  [entry |-> entry, color |-> color,
   size |-> h[left].size + 1 + h[right].size,
   left |-> left, right |-> right]

\* Accessors.
size(h, n) == h[n].size
empty(h, n) == size(h, n) = 0
red(h, n) == h[n].color # 0
key(h, n) == h[n].entry[1]
left(h, n) == h[n].left
right(h, n) == h[n].right

\* A Clone that duplicates the left child too.
Clone_deep(h, n, c) ==
  LET me == Fresh(h, c)
      h1 == Alloc(h, c, h[n])
      l == Fresh(h1, c)
  IN  IF empty(h1, left(h1, me))
      THEN h1
      ELSE [Alloc(h1, c, h1[left(h1, me)]) EXCEPT ![me].left = l]

\* Clone(): a new Rep copied from *rep_ (same entry, color, size and children).
Clone(h, n, c) == Alloc(h, c, h[n])

\* The setters: each writes one field of the Rep the handle points to.
set_size(h, n, s) == [h EXCEPT ![n].size = s]
set_entry(h, n, e) == [h EXCEPT ![n].entry = e]
\* A set_value that loses the new value.
set_value_lost(h, n, v) == h
set_value(h, n, v) == [h EXCEPT ![n].entry = <<@[1], v>>]
set_color(h, n, c) == [h EXCEPT ![n].color = c]
set_left(h, n, l) == [h EXCEPT ![n].left = l]
set_right(h, n, r) == [h EXCEPT ![n].right = r]

OppositeColor(h, n) == IF h[n].color = Red THEN Black ELSE Red

(***************************************************************************)
(* The rebalancing transformations, on node x, allocating as owner c.      *)
(***************************************************************************)
\* A RotateLeft that leaves the entry of x at the top (no set_entry).
RotateLeft_keep_entry(h, x, c) ==
  LET new_left == Fresh(h, c)
      h1 == Alloc(h, c, Rep4(h, h[x].entry, Red, left(h, x), left(h, right(h, x))))
      h3 == set_left(h1, x, new_left)
  IN  set_right(h3, x, right(h3, right(h3, x)))

\* A RotateLeft that puts a copy of the left child under the new node, not the
\* left child itself.
RotateLeft_copy_left(h, x, c) ==
  LET h0 == IF empty(h, left(h, x)) THEN h ELSE Clone(h, left(h, x), c)
      l == IF empty(h, left(h, x)) THEN EmptyNode ELSE Fresh(h, c)
      new_left == Fresh(h0, c)
      h1 == Alloc(h0, c, Rep4(h0, h0[x].entry, Red, l, left(h0, right(h0, x))))
      h2 == set_entry(h1, x, h1[right(h1, x)].entry)
      h3 == set_left(h2, x, new_left)
  IN  set_right(h3, x, right(h3, right(h3, x)))
RotateLeft(h, x, c) ==
  LET new_left == Fresh(h, c)
      h1 == Alloc(h, c, Rep4(h, h[x].entry, Red, left(h, x), left(h, right(h, x))))
      h2 == set_entry(h1, x, h1[right(h1, x)].entry)
      h3 == set_left(h2, x, new_left)
  IN  set_right(h3, x, right(h3, right(h3, x)))

\* A RotateRight whose new node is Black.
RotateRight_black_node(h, x, c) ==
  LET new_right == Fresh(h, c)
      h1 == Alloc(h, c, Rep4(h, h[x].entry, Black, right(h, left(h, x)), right(h, x)))
      h2 == set_entry(h1, x, h1[left(h1, x)].entry)
      h3 == set_left(h2, x, left(h2, left(h2, x)))
  IN  set_right(h3, x, new_right)
RotateRight(h, x, c) ==
  LET new_right == Fresh(h, c)
      h1 == Alloc(h, c, Rep4(h, h[x].entry, Red, right(h, left(h, x)), right(h, x)))
      h2 == set_entry(h1, x, h1[left(h1, x)].entry)
      h3 == set_left(h2, x, left(h2, left(h2, x)))
  IN  set_right(h3, x, new_right)

\* A FlipColor that recolors the children and not the node itself.
FlipColor_keep_top(h, x, c) ==
  LET new_left == Fresh(h, c)
      h1 == Clone(h, left(h, x), c)
      h2 == set_color(h1, new_left, OppositeColor(h1, left(h1, x)))
      new_right == Fresh(h2, c)
      h3 == Clone(h2, right(h2, x), c)
      h4 == set_color(h3, new_right, OppositeColor(h3, right(h3, x)))
      h6 == set_left(h4, x, new_left)
  IN  set_right(h6, x, new_right)

\* A FlipColor that recolors the children where they are, without cloning them.
FlipColor_in_place(h, x, c) ==
  LET h2 == set_color(h, left(h, x), OppositeColor(h, left(h, x)))
      h4 == set_color(h2, right(h2, x), OppositeColor(h2, right(h2, x)))
  IN  set_color(h4, x, OppositeColor(h4, x))

FlipColor(h, x, c) ==
  LET new_left == Fresh(h, c)
      h1 == Clone(h, left(h, x), c)
      h2 == set_color(h1, new_left, OppositeColor(h1, left(h1, x)))
      new_right == Fresh(h2, c)
      h3 == Clone(h2, right(h2, x), c)
      h4 == set_color(h3, new_right, OppositeColor(h3, right(h3, x)))
      h5 == set_color(h4, x, OppositeColor(h4, x))
      h6 == set_left(h5, x, new_left)
  IN  set_right(h6, x, new_right)

\* The conditions of the three ifs of FixUp.
\* The first test of FixUp with the negation lost, and the second one looking at
\* the wrong grandchild.
NeedRotateLeft_both_red(h, x) == red(h, right(h, x)) /\ red(h, left(h, x))
NeedRotateRight_inner(h, x) == red(h, left(h, x)) /\ red(h, right(h, left(h, x)))
NeedRotateLeft(h, x) == red(h, right(h, x)) /\ ~red(h, left(h, x))
NeedRotateRight(h, x) == red(h, left(h, x)) /\ red(h, left(h, left(h, x)))
\* The third test of FixUp holding as soon as one child is Red.
NeedFlipColor_either(h, x) == red(h, left(h, x)) \/ red(h, right(h, x))
NeedFlipColor(h, x) == red(h, left(h, x)) /\ red(h, right(h, x))

\* The steps of FixUp, in the order of the code.
\* A FixUp that keeps the size the clone copied.
FixSize_stale(h, x) == h
\* A FixUp whose first test never holds: no left rotation.
FixRotateLeft_never(h, x, c) == h
FixSize(h, x) == set_size(h, x, size(h, left(h, x)) + 1 + size(h, right(h, x)))
FixRotateLeft(h, x, c) == IF NeedRotateLeft(h, x) THEN RotateLeft(h, x, c) ELSE h
FixRotateRight(h, x, c) == IF NeedRotateRight(h, x) THEN RotateRight(h, x, c) ELSE h
FixFlipColor(h, x, c) == IF NeedFlipColor(h, x) THEN FlipColor(h, x, c) ELSE h

\* A FixUp that makes the color test before the two rotation tests.
FixUp_flip_first(h, x, c) ==
  FixRotateRight(FixRotateLeft(FixFlipColor(FixSize(h, x), x, c), x, c), x, c)

FixUp(h, x, c) ==
  FixFlipColor(FixRotateRight(FixRotateLeft(FixSize(h, x), x, c), x, c), x, c)

(***************************************************************************)
(* InnerInsert and insert, run from call to return.  The result is the     *)
(* heap after the call and the node returned: [h, node].                   *)
(***************************************************************************)
\* InnerInsert on the empty node: a new Red leaf with two empty children.
\* A new leaf whose two empty children are an empty Rep of its own instead of the
\* shared one.
NewLeaf_own_empty(h, k, v, c) ==
  LET e == Fresh(h, c)
      h1 == Alloc(h, c, EmptyRep)
  IN  Alloc(h1, c, Rep4(h1, <<k, v>>, Red, e, e))
\* A new leaf that is Black.
NewLeaf_black(h, k, v, c) == Alloc(h, c, Rep4(h, <<k, v>>, Black, EmptyNode, EmptyNode))
NewLeaf(h, k, v, c) == Alloc(h, c, Rep4(h, <<k, v>>, Red, EmptyNode, EmptyNode))

\* An InnerInsert that never tests for equal keys: what does not sort before goes
\* to the right.
RECURSIVE InnerInsert_no_equal(_, _, _, _, _)
InnerInsert_no_equal(h, n, k, v, c) ==
  IF empty(h, n)
  THEN [h |-> NewLeaf(h, k, v, c), node |-> Fresh(h, c)]
  ELSE LET result == Fresh(h, c)
           h1 == Clone(h, n, c)
           this_key == key(h1, n)
       IN  IF comparator(k, this_key)
           THEN LET sub == InnerInsert_no_equal(h1, left(h1, result), k, v, c)
                IN  [h |-> FixUp(set_left(sub.h, result, sub.node), result, c),
                     node |-> result]
           ELSE LET sub == InnerInsert_no_equal(h1, right(h1, result), k, v, c)
                IN  [h |-> FixUp(set_right(sub.h, result, sub.node), result, c),
                     node |-> result]

RECURSIVE InnerInsert(_, _, _, _, _)
InnerInsert(h, n, k, v, c) ==
  IF empty(h, n)
  THEN [h |-> NewLeaf(h, k, v, c), node |-> Fresh(h, c)]
  ELSE LET result == Fresh(h, c)
           h1 == Clone(h, n, c)
           this_key == key(h1, n)
       IN  IF comparator(k, this_key)
           THEN LET sub == InnerInsert(h1, left(h1, result), k, v, c)
                IN  [h |-> FixUp(set_left(sub.h, result, sub.node), result, c),
                     node |-> result]
           ELSE IF comparator(this_key, k)
           THEN LET sub == InnerInsert(h1, right(h1, result), k, v, c)
                IN  [h |-> FixUp(set_right(sub.h, result, sub.node), result, c),
                     node |-> result]
           ELSE [h |-> set_value(h1, result, v), node |-> result]

\* InnerInsert(k, v) on node n with a record of every nested call, the outermost
\* first: the receiver n, whether the call reached result.FixUp() and the heap at
\* that point (the child has been replaced by the node the nested call returned),
\* the heap at the return and the node returned.
RECURSIVE InnerInsertLevels(_, _, _, _, _)
InnerInsertLevels(h, n, k, v, c) ==
  IF empty(h, n)
  THEN <<[n |-> n, fix |-> FALSE, pre |-> h,
          h |-> NewLeaf(h, k, v, c), node |-> Fresh(h, c)]>>
  ELSE LET result == Fresh(h, c)
           h1 == Clone(h, n, c)
           this_key == key(h1, n)
       IN  IF comparator(k, this_key)
           THEN LET below == InnerInsertLevels(h1, left(h1, result), k, v, c)
                    pre == set_left(below[1].h, result, below[1].node)
                IN  <<[n |-> n, fix |-> TRUE, pre |-> pre,
                       h |-> FixUp(pre, result, c), node |-> result]>> \o below
           ELSE IF comparator(this_key, k)
           THEN LET below == InnerInsertLevels(h1, right(h1, result), k, v, c)
                    pre == set_right(below[1].h, result, below[1].node)
                IN  <<[n |-> n, fix |-> TRUE, pre |-> pre,
                       h |-> FixUp(pre, result, c), node |-> result]>> \o below
           ELSE <<[n |-> n, fix |-> FALSE, pre |-> h1,
                   h |-> set_value(h1, result, v), node |-> result]>>

\* An insert that returns the root as InnerInsert left it.
BlackenRoot_skipped(h, root) == h

\* The root must always be black.
BlackenRoot(h, root) == IF red(h, root) THEN set_color(h, root, Black) ELSE h

insert(h, n, k, v, c) ==
  LET r == InnerInsert(h, n, k, v, c)
  IN  [h |-> BlackenRoot(r.h, r.node), node |-> r.node]

(***************************************************************************)
(* Trees as values: what a holder of a root observes through the const     *)
(* accessors (entry, color, size, left, right), down to the empty node.    *)
(***************************************************************************)
\* What the accessors report on the empty node.
Empty == [entry |-> <<0, "">>, color |-> Black, size |-> 0]

RECURSIVE Abs(_, _)
Abs(h, n) ==
  IF n = EmptyNode
  THEN Empty
  ELSE [entry |-> h[n].entry, color |-> h[n].color, size |-> h[n].size,
        left |-> Abs(h, left(h, n)), right |-> Abs(h, right(h, n))]

\* A heap holding tree T: the node at position p of T (root 1, children 2p
\* and 2p + 1) is <<0, p>>.
At(T, p) == IF T.size = 0 THEN EmptyNode ELSE <<0, p>>

RECURSIVE Load(_, _)
Load(T, p) ==
  IF T.size = 0
  THEN EmptyHeap
  ELSE (<<0, p>> :> [entry |-> T.entry, color |-> T.color, size |-> T.size,
                     left |-> At(T.left, 2 * p), right |-> At(T.right, 2 * p + 1)])
       @@ Load(T.left, 2 * p) @@ Load(T.right, 2 * p + 1)

\* T.insert(k, v, comparator) run alone, as owner 1, on a heap holding T.
InsertTree(T, k, v) ==
  LET r == insert(Load(T, 1), At(T, 1), k, v, 1)
  IN  Abs(r.h, r.node)

(***************************************************************************)
(* State.                                                                  *)
(*   tree, prev, arg, ref: a caller that keeps one map and updates it with *)
(*   tree = tree.insert(k, v): the tree it holds, the tree it held before  *)
(*   the last call, the <<k, v>> of the last call, and a reference map     *)
(*   (a function from the keys inserted to their values) updated by the    *)
(*   same calls.                                                           *)
(***************************************************************************)
VARIABLES tree, prev, arg, ref
VARIABLES heap, snap, cur, proc

seqvars == <<tree, prev, arg, ref>>
thrvars == <<heap, snap, cur, proc>>
vars == <<heap, snap, cur, proc, tree, prev, arg, ref>>

MapInit ==
  /\ tree = Empty
  /\ prev = Empty
  /\ arg = <<0, "">>
  /\ ref = [k \in {} |-> ""]

\* tree = tree.insert(k, v, comparator)
Call(k, v) ==
  /\ tree' = InsertTree(tree, k, v)
  /\ prev' = tree
  /\ arg' = <<k, v>>
  /\ ref' = (k :> v) @@ ref
  /\ UNCHANGED thrvars

SeqNext == \E k \in Keys, v \in Vals : Call(k, v)

(***************************************************************************)
(* Threads.  Two threads share a root; each calls insert once, on the root *)
(* shared at that time, and shares the root it gets back.  A call is run    *)
(* step by step; the steps of the two threads interleave.                   *)
(*   heap     the Reps allocated so far                                     *)
(*   snap     the roots handed to a caller (published), each with the tree  *)
(*            it held when it was handed out                                *)
(*   cur      the root a new call starts from (the last one published)      *)
(*   proc[t]  the call of thread t:                                         *)
(*     pc      where the thread is                                          *)
(*     k, v    the arguments of the call                                    *)
(*     start   the root the call was made on                                *)
(*     node    the receiver of the active InnerInsert, or, once it has      *)
(*             returned, the node it returned                               *)
(*     result  the local result of the active InnerInsert                   *)
(*     stack   the suspended InnerInserts: their result and which child     *)
(*             ("L" or "R") is being inserted into                          *)
(*     base    the number of Reps the thread had allocated before the call  *)
(***************************************************************************)

Idle == [pc |-> "idle", k |-> 0, v |-> "", start |-> EmptyNode, node |-> EmptyNode,
         result |-> EmptyNode, stack |-> <<>>, base |-> 0]

\* The tree built from the empty tree by the inserts of s, one after the other.
RECURSIVE Build(_)
Build(s) ==
  IF s = <<>>
  THEN Empty
  ELSE InsertTree(Build(SubSeq(s, 1, Len(s) - 1)), s[Len(s)][1], s[Len(s)][2])

InitSeqs == UNION {[1..n -> TKeys \X Vals] : n \in 0..InitLen}

\* The Reps thread t has allocated.
AllocatedBy(h, t) == {n \in DOMAIN h : n[1] = t}

ThrInit ==
  \E s \in InitSeqs :
    /\ heap = Load(Build(s), 1)
    /\ cur = At(Build(s), 1)
    /\ snap = (At(Build(s), 1) :> Build(s))
    /\ proc = [t \in Threads |-> Idle]

\* A caller on thread t calls cur.insert(k, v, comparator).
Begin(t, k, v) ==
  /\ proc[t].pc = "idle"
  /\ proc[t].k = 0
  /\ proc' = [proc EXCEPT ![t] =
       [pc |-> "inner", k |-> k, v |-> v, start |-> cur, node |-> cur,
        result |-> EmptyNode, stack |-> <<>>,
        base |-> Cardinality(AllocatedBy(heap, t))]]
  /\ UNCHANGED <<heap, snap, cur, seqvars>>

\* An InnerInsert that does not stop at the empty node and goes on into its left.
LeafStep_descend(t) ==
  /\ proc[t].pc = "inner"
  /\ empty(heap, proc[t].node)
  /\ proc' = [proc EXCEPT
       ![t].stack = Append(@, [result |-> proc[t].node, dir |-> "L"]),
       ![t].node = left(heap, proc[t].node)]
  /\ UNCHANGED <<heap, snap, cur, seqvars>>

\* InnerInsert on the empty node: return a new leaf.
LeafStep(t) ==
  /\ proc[t].pc = "inner"
  /\ empty(heap, proc[t].node)
  /\ heap' = NewLeaf(heap, proc[t].k, proc[t].v, t)
  /\ proc' = [proc EXCEPT ![t].pc = "return", ![t].node = Fresh(heap, t)]
  /\ UNCHANGED <<snap, cur, seqvars>>

\* LlrbNode result = Clone();
CloneStep(t) ==
  /\ proc[t].pc = "inner"
  /\ ~empty(heap, proc[t].node)
  /\ heap' = Clone(heap, proc[t].node, t)
  /\ proc' = [proc EXCEPT ![t].pc = "compare", ![t].result = Fresh(heap, t)]
  /\ UNCHANGED <<snap, cur, seqvars>>

\* descending: recurse into result.left().
DescendLeft(t) ==
  /\ proc[t].pc = "compare"
  /\ comparator(proc[t].k, key(heap, proc[t].node))
  /\ proc' = [proc EXCEPT
       ![t].pc = "inner",
       ![t].stack = Append(@, [result |-> proc[t].result, dir |-> "L"]),
       ![t].node = left(heap, proc[t].result)]
  /\ UNCHANGED <<heap, snap, cur, seqvars>>

\* ascending: recurse into result.right().
DescendRight(t) ==
  /\ proc[t].pc = "compare"
  /\ ~comparator(proc[t].k, key(heap, proc[t].node))
  /\ comparator(key(heap, proc[t].node), proc[t].k)
  /\ proc' = [proc EXCEPT
       ![t].pc = "inner",
       ![t].stack = Append(@, [result |-> proc[t].result, dir |-> "R"]),
       ![t].node = right(heap, proc[t].result)]
  /\ UNCHANGED <<heap, snap, cur, seqvars>>

\* An update that writes the value into the receiver instead of the clone.
UpdateValue_on_this(t) ==
  /\ proc[t].pc = "compare"
  /\ ~comparator(proc[t].k, key(heap, proc[t].node))
  /\ ~comparator(key(heap, proc[t].node), proc[t].k)
  /\ heap' = set_value(heap, proc[t].node, proc[t].v)
  /\ proc' = [proc EXCEPT ![t].pc = "return", ![t].node = proc[t].result]
  /\ UNCHANGED <<snap, cur, seqvars>>

\* keys are equal so update the value; return result.
UpdateValue(t) ==
  /\ proc[t].pc = "compare"
  /\ ~comparator(proc[t].k, key(heap, proc[t].node))
  /\ ~comparator(key(heap, proc[t].node), proc[t].k)
  /\ heap' = set_value(heap, proc[t].result, proc[t].v)
  /\ proc' = [proc EXCEPT ![t].pc = "return", ![t].node = proc[t].result]
  /\ UNCHANGED <<snap, cur, seqvars>>

\* result.set_left(...) / result.set_right(...) with the node the recursive
\* InnerInsert returned.
SetChild(t) ==
  /\ proc[t].pc = "return"
  /\ proc[t].stack # <<>>
  /\ LET f == proc[t].stack[Len(proc[t].stack)]
     IN  /\ heap' = IF f.dir = "L"
                    THEN set_left(heap, f.result, proc[t].node)
                    ELSE set_right(heap, f.result, proc[t].node)
         /\ proc' = [proc EXCEPT
              ![t].pc = "fix_size",
              ![t].result = f.result,
              ![t].stack = SubSeq(@, 1, Len(@) - 1)]
  /\ UNCHANGED <<snap, cur, seqvars>>

\* FixUp: set_size(left().size() + 1 + right().size());
FixSizeStep(t) ==
  /\ proc[t].pc = "fix_size"
  /\ heap' = FixSize(heap, proc[t].result)
  /\ proc' = [proc EXCEPT ![t].pc = "fix_rl"]
  /\ UNCHANGED <<snap, cur, seqvars>>

\* FixUp: if (right().red() && !left().red()) RotateLeft();
RotateLeftStep(t) ==
  /\ proc[t].pc = "fix_rl"
  /\ heap' = FixRotateLeft(heap, proc[t].result, t)
  /\ proc' = [proc EXCEPT ![t].pc = "fix_rr"]
  /\ UNCHANGED <<snap, cur, seqvars>>

\* FixUp: if (left().red() && left().left().red()) RotateRight();
RotateRightStep(t) ==
  /\ proc[t].pc = "fix_rr"
  /\ heap' = FixRotateRight(heap, proc[t].result, t)
  /\ proc' = [proc EXCEPT ![t].pc = "fix_fc"]
  /\ UNCHANGED <<snap, cur, seqvars>>

\* FixUp: if (left().red() && right().red()) FlipColor(); then return result.
FlipColorStep(t) ==
  /\ proc[t].pc = "fix_fc"
  /\ heap' = FixFlipColor(heap, proc[t].result, t)
  /\ proc' = [proc EXCEPT ![t].pc = "return", ![t].node = proc[t].result]
  /\ UNCHANGED <<snap, cur, seqvars>>

\* insert: the outermost InnerInsert has returned root; blacken it if it is red.
RootStep(t) ==
  /\ proc[t].pc = "return"
  /\ proc[t].stack = <<>>
  /\ heap' = BlackenRoot(heap, proc[t].node)
  /\ proc' = [proc EXCEPT ![t].pc = "done"]
  /\ UNCHANGED <<snap, cur, seqvars>>

\* insert returns root to the caller, which shares it.
Return(t) ==
  /\ proc[t].pc = "done"
  /\ snap' = (proc[t].node :> Abs(heap, proc[t].node)) @@ snap
  /\ cur' = proc[t].node
  /\ proc' = [proc EXCEPT ![t].pc = "idle"]
  /\ UNCHANGED <<heap, seqvars>>

Step(t) ==
  \/ \E k \in TKeys, v \in Vals : Begin(t, k, v)
  \/ LeafStep(t)
  \/ CloneStep(t)
  \/ DescendLeft(t)
  \/ DescendRight(t)
  \/ UpdateValue(t)
  \/ SetChild(t)
  \/ FixSizeStep(t)
  \/ RotateLeftStep(t)
  \/ RotateRightStep(t)
  \/ FlipColorStep(t)
  \/ RootStep(t)
  \/ Return(t)

Init == ThrInit /\ MapInit

\* The sequential caller alone: no thread ever begins a call.
NoThreads ==
  /\ heap = EmptyHeap
  /\ cur = EmptyNode
  /\ snap = (EmptyNode :> Empty)
  /\ proc = [t \in Threads |-> Idle]

SeqInit == MapInit /\ NoThreads

SeqSpec == SeqInit /\ [][SeqNext]_vars

\* The same caller storing one value under every key.  The code never looks into
\* a value, so the shape of the trees (structure, colors, sizes, which Reps are
\* copied) is the one of the caller above.
ShapeNext == \E k \in 1..ShapeKeys : Call(k, "a")

ShapeSpec == SeqInit /\ [][ShapeNext]_vars

Next == \E t \in Threads : Step(t)

Spec == Init /\ [][Next]_vars

(***************************************************************************)
(* Observations of a tree value.                                           *)
(***************************************************************************)
IsRed(T) == T.color = Red

\* The non-empty nodes of T, each with the subtree below it.
RECURSIVE Subtrees(_)
Subtrees(T) ==
  IF T.size = 0 THEN {} ELSE {T} \cup Subtrees(T.left) \cup Subtrees(T.right)

\* The in-order walk (left, self, right) of T: its entries as a sequence.
RECURSIVE InOrder(_)
InOrder(T) ==
  IF T.size = 0 THEN <<>> ELSE InOrder(T.left) \o <<T.entry>> \o InOrder(T.right)

Entries(T) == {InOrder(T)[i] : i \in 1..Len(InOrder(T))}
KeysOf(T) == {e[1] : e \in Entries(T)}

\* The numbers of Black nodes met on the paths from T down to an empty leaf.
RECURSIVE BlackCounts(_)
BlackCounts(T) ==
  IF T.size = 0
  THEN {0}
  ELSE {b + (IF IsRed(T) THEN 0 ELSE 1) :
          b \in BlackCounts(T.left) \cup BlackCounts(T.right)}

\* The entries of the reference map from key k on, in ascending key order.
RECURSIVE RefFrom(_)
RefFrom(k) ==
  IF k > MaxKey
  THEN <<>>
  ELSE (IF k \in DOMAIN ref THEN <<(<<k, ref[k]>>)>> ELSE <<>>) \o RefFrom(k + 1)

\* T with the value at key k replaced by v, nothing else touched.
RECURSIVE WithValue(_, _, _)
WithValue(T, k, v) ==
  IF T.size = 0
  THEN T
  ELSE IF T.entry[1] = k
  THEN [T EXCEPT !.entry = <<k, v>>]
  ELSE [T EXCEPT !.left = WithValue(T.left, k, v), !.right = WithValue(T.right, k, v)]

\* The number of nodes on the search path of T towards key k.
RECURSIVE PathLen(_, _)
PathLen(T, k) ==
  IF T.size = 0
  THEN 0
  ELSE IF comparator(k, T.entry[1])
  THEN 1 + PathLen(T.left, k)
  ELSE IF comparator(T.entry[1], k)
  THEN 1 + PathLen(T.right, k)
  ELSE 1

\* The number of Reps T.insert(k, v, comparator) allocates.
Allocations(T, k, v) ==
  Cardinality({n \in DOMAIN insert(Load(T, 1), At(T, 1), k, v, 1).h : n[1] = 1})

\* The last call of the caller inserted a key the tree did not hold / held.
Called == arg[1] # 0
CalledNew == Called /\ arg[1] \notin KeysOf(prev)
CalledUpdate == Called /\ arg[1] \in KeysOf(prev)

\* The leftmost node of a non-empty tree.
RECURSIVE Leftmost(_)
Leftmost(T) == IF T.left.size = 0 THEN T ELSE Leftmost(T.left)

(***************************************************************************)
(* Properties of the tree the sequential caller holds (SeqSpec).           *)
(***************************************************************************)

\* C2: black-height balance. In the tree returned by any sequence of inserts,
\* every path from the root to an empty leaf passes through the same number of
\* Black nodes, and so does every path from any node of the tree to its own
\* descendant empty leaves.
C2_BlackHeight == \A S \in Subtrees(tree) : Cardinality(BlackCounts(S)) = 1

\* The last insert of a new key split a node below the root of a tree of at least
\* four entries: the tree now has a Red node with two non-empty Black children,
\* and had none before.
RedInner(T) ==
  {S \in Subtrees(T) : IsRed(S) /\ S.left.size > 0 /\ S.right.size > 0}

C2_Witness ==
  CalledNew /\ prev.size >= 4 /\ RedInner(prev) = {} /\ RedInner(tree) # {}

\* C3: left-leaning. No node of the returned tree has a Red right child.
C3_LeftLeaning == \A S \in Subtrees(tree) : ~IsRed(S.right)

\* The last insert left the new key above a Red left child holding the key that
\* was at its place: a left rotation below the root, kept in the returned tree.
C3_Witness ==
  /\ CalledNew
  /\ \E S \in Subtrees(tree) :
       /\ S.entry = arg
       /\ S.size < tree.size
       /\ IsRed(S.left)
       /\ S.left.entry[1] \in KeysOf(prev)

\* C4: no consecutive reds. No Red node of the returned tree has a Red left child.
C4_NoRedRed == \A S \in Subtrees(tree) : IsRed(S) => ~IsRed(S.left)

\* The last insert put a new smallest key under the Red leftmost node of a tree of
\* at least four entries: two Reds in a row on the left, removed by a right rotation.
C4_Witness ==
  /\ CalledNew
  /\ prev.size >= 4
  /\ IsRed(Leftmost(prev))
  /\ \A k \in KeysOf(prev) : arg[1] < k

\* C5: the root is Black. The node every insert returns is Black (new key, updated
\* key, or insert on the empty tree), and so is the root of the empty tree.
C5_RootBlack == tree.color = Black /\ Empty.color = Black

\* The last insert returned a root whose black height differs from the one before:
\* InnerInsert returned a Red root and insert recolored it.
C5_Witness ==
  /\ Called
  /\ prev.size >= 2
  /\ BlackCounts(tree) # BlackCounts(prev)
  /\ tree.color = Black

\* C6: sizes. Every node of the returned tree has size = left.size + 1 + right.size,
\* the empty node has size 0, and the size of the root is the number of distinct
\* keys inserted.
C6_Size ==
  /\ \A S \in Subtrees(tree) : S.size = S.left.size + 1 + S.right.size
  /\ Empty.size = 0
  /\ tree.size = Cardinality(DOMAIN ref)

\* The last insert added a sixth (or later) key to the tree.
C6_Witness == CalledNew /\ tree.size = prev.size + 1 /\ tree.size >= 6

\* C7: order. At every node all keys of the left subtree sort strictly before the
\* node's key and all keys of the right subtree strictly after it; the in-order
\* walk yields strictly ascending keys, none twice.
C7_Ordered ==
  /\ \A S \in Subtrees(tree) :
       /\ \A k \in KeysOf(S.left) : comparator(k, S.entry[1])
       /\ \A k \in KeysOf(S.right) : comparator(S.entry[1], k)
  /\ \A i \in 1..(Len(InOrder(tree)) - 1) :
       comparator(InOrder(tree)[i][1], InOrder(tree)[i + 1][1])

\* The last insert put a key between keys the tree already held, and the tree now
\* holds at least six.
C7_Witness ==
  /\ CalledNew
  /\ tree.size >= 6
  /\ \E a, b \in KeysOf(prev) : a < arg[1] /\ arg[1] < b

\* C8: insert is a map update. The entries of T.insert(k, v) are the entries of T
\* with k mapped to v and nothing else added, removed or changed; the in-order
\* entries of the tree equal those of a reference map updated by the same calls.
C8_MapUpdate ==
  /\ InOrder(tree) = RefFrom(1)
  /\ Called => Entries(tree) = {e \in Entries(prev) : e[1] # arg[1]} \cup {arg}

\* The last insert overwrote the value of a key in a tree of at least five entries.
C8_Witness ==
  /\ CalledUpdate
  /\ prev.size >= 5
  /\ <<arg[1], arg[2]>> \notin Entries(prev)

\* C9: update. Inserting a key the tree holds returns a tree of the same size with
\* the same shape, colors and keys; only the value at that key is the new one. No
\* rotation and no flip is performed: the call allocates the copies of the nodes
\* of the search path and no other Rep.
C9_Update ==
  CalledUpdate =>
    /\ tree.size = prev.size
    /\ tree = WithValue(prev, arg[1], arg[2])
    /\ Allocations(prev, arg[1], arg[2]) = PathLen(prev, arg[1])

\* The last insert changed the value of a key three levels down.
C9_Witness ==
  /\ CalledUpdate
  /\ PathLen(prev, arg[1]) >= 3
  /\ tree # prev

(***************************************************************************)
(* Properties of the threads (Spec).                                       *)
(***************************************************************************)
\* The nodes reachable from n, the empty node included.
RECURSIVE Reach(_, _)
Reach(h, n) ==
  IF n = EmptyNode
  THEN {EmptyNode}
  ELSE {n} \cup Reach(h, left(h, n)) \cup Reach(h, right(h, n))

\* The nodes reachable from a root handed to a caller.
Published == UNION {Reach(heap, r) : r \in DOMAIN snap}

InCall(t) == proc[t].pc # "idle"
HasCalled(t) == proc[t].k # 0

\* The Reps thread t allocated in its current (or, when idle, its last) call.
Owned(t) == {n \in AllocatedBy(heap, t) : n[2] > proc[t].base}

\* The nodes whose fields the next step of thread t reads.
ReadSet(t) ==
  LET p == proc[t]
      x == p.result
      l == left(heap, x)
      r == right(heap, x)
  IN  CASE p.pc = "inner" -> {p.node}
        [] p.pc = "compare" -> {p.node, x}
        [] p.pc = "return" -> IF p.stack = <<>> THEN {p.node} ELSE {}
        [] p.pc = "fix_size" -> {x, l, r}
        [] p.pc = "fix_rl" ->
             {x, l, r} \cup (IF NeedRotateLeft(heap, x) THEN {left(heap, r)} ELSE {})
        [] p.pc = "fix_rr" ->
             {x, l, left(heap, l)}
               \cup (IF NeedRotateRight(heap, x) THEN {right(heap, l), r} ELSE {})
        [] p.pc = "fix_fc" -> {x, l, r}
        [] OTHER -> {}

\* In a step: thread t is the one that moves; the nodes the step writes (a field
\* changed, or the Rep is new).
Acting(t) == proc'[t] # proc[t]
Written ==
  {n \in DOMAIN heap : heap'[n] # heap[n]} \cup (DOMAIN heap' \ DOMAIN heap)

\* C1: persistence. No node reachable from a published root is written at any step
\* during or after a call: every published root still reports the tree (entries,
\* colors, sizes, structure) it reported when it was handed out, and every write
\* of a step of insert targets a Rep allocated within that same call.
C1_Persistence ==
  /\ [](\A r \in DOMAIN snap : Abs(heap, r) = snap[r])
  /\ [][/\ \A n \in Published : heap'[n] = heap[n]
        /\ \A n \in Written :
             \E t \in Threads :
               Acting(t) /\ InCall(t) /\ n[1] = t /\ n[2] > proc[t].base]_vars

\* Both threads inserted into the same tree of at least two entries; one has handed
\* its root to the callers and the other has its root ready.
C1_Witness ==
  \E t, u \in Threads :
    /\ t # u
    /\ proc[t].pc = "done"
    /\ proc[u].pc = "idle" /\ HasCalled(u)
    /\ proc[u].start = proc[t].start
    /\ snap[proc[t].start].size >= 2
    /\ proc[u].node \in DOMAIN snap
    /\ Abs(heap, proc[t].node) # snap[proc[t].start]

\* C10: independent concurrent inserts. When two calls run against the same
\* starting root with their steps interleaved, each returns the tree it returns
\* when run alone, no step of one reads or writes a Rep allocated by the other,
\* and the tree of the starting root stays as it was.
C10_Independent ==
  /\ [](\A t \in Threads :
          /\ proc[t].pc = "done" =>
               Abs(heap, proc[t].node)
                 = InsertTree(snap[proc[t].start], proc[t].k, proc[t].v)
          /\ InCall(t) => Abs(heap, proc[t].start) = snap[proc[t].start]
          /\ \A u \in Threads \ {t} :
               InCall(t) /\ HasCalled(u) /\ proc[u].start = proc[t].start
                 => ReadSet(t) \cap Owned(u) = {})
  /\ [][\A t \in Threads : \A u \in Threads \ {t} :
          Acting(t) /\ HasCalled(u) /\ proc[u].start = proc[t].start
            => Written \cap Owned(u) = {}]_vars

\* One thread has its root ready while the other, which inserts another key into
\* the same starting tree, is about to flip the colors of a node.
C10_Witness ==
  \E t, u \in Threads :
    /\ t # u
    /\ proc[t].pc = "done"
    /\ proc[u].pc = "fix_fc"
    /\ NeedFlipColor(heap, proc[u].result)
    /\ proc[u].start = proc[t].start
    /\ proc[u].k # proc[t].k
    /\ Owned(t) # {} /\ Owned(u) # {}

(***************************************************************************)
(* Height of the tree the sequential caller holds (ShapeSpec).           *)
(***************************************************************************)
\* The number of non-empty nodes on the longest path from the root of T down to
\* an empty leaf.
RECURSIVE Height(_)
Height(T) ==
  IF T.size = 0
  THEN 0
  ELSE 1 + (IF Height(T.left) >= Height(T.right) THEN Height(T.left) ELSE Height(T.right))

\* C11: height bound. After any sequence of inserts that leaves n entries in the
\* tree, the height h of the tree is at most 2 * log2(n + 1), that is
\* 2^h <= (n + 1)^2.
C11_Height == 2 ^ Height(tree) <= (tree.size + 1) * (tree.size + 1)

\* The last insert added a key greater than all the keys held, and the tree now
\* holds eight entries on four levels or more.
C11_Witness ==
  /\ CalledNew
  /\ \A k \in KeysOf(prev) : k < arg[1]
  /\ tree.size >= 8
  /\ Height(tree) >= 4

(***************************************************************************)
(* The empty node (Spec).                                                  *)
(***************************************************************************)
\* C12: canonical empty sentinel. There is a single empty node; it is Black, has
\* size 0 and its left and right are itself, in every state; no step of insert
\* writes it; every child link of a published tree that leads to an empty node
\* leads to that node, so that left()/right() of an empty node is the same node.
C12_Sentinel ==
  /\ [](/\ heap[EmptyNode].color = Black
        /\ heap[EmptyNode].size = 0
        /\ left(heap, EmptyNode) = EmptyNode
        /\ right(heap, EmptyNode) = EmptyNode
        /\ \A n \in DOMAIN heap : empty(heap, n) => n = EmptyNode
        /\ \A n \in Published :
             \A c \in {left(heap, n), right(heap, n)} :
               empty(heap, c) => c = EmptyNode /\ left(heap, c) = c /\ right(heap, c) = c)
  /\ [][EmptyNode \notin Written]_vars

\* A thread has inserted into the empty tree, the other into the tree the first
\* one returned: both roots are published, the second tree holds two entries.
C12_Witness ==
  \E t, u \in Threads :
    /\ t # u
    /\ proc[t].pc = "idle" /\ HasCalled(t) /\ proc[t].start = EmptyNode
    /\ proc[u].pc = "idle" /\ HasCalled(u) /\ proc[u].start = proc[t].node
    /\ proc[u].node \in DOMAIN snap
    /\ size(heap, proc[u].node) = 2
    /\ EmptyNode \in Reach(heap, proc[u].node)

(***************************************************************************)
(* Termination of a call (FairSpec).                                       *)
(***************************************************************************)
\* One caller, on thread 1.  A call runs to completion on the calling thread: a
\* thread that is in a call goes on taking the steps of that call.  Whether the
\* caller begins a call is up to the caller.
FairNext == Step(1)

FairSpec == Init /\ [][FairNext]_vars /\ WF_vars(InCall(1) /\ FairNext)

\* C13: termination. Every call of insert returns a root; the nested InnerInserts
\* of a call are at most height + 1 (height of the tree the call was made on);
\* an InnerInsert recurses only from a non-empty receiver, into a child of it,
\* and the innermost one returns at the empty node or at a node with a key
\* equivalent to the one inserted.
C13_Termination ==
  /\ \A t \in Threads : InCall(t) ~> ~InCall(t)
  /\ [](\A t \in Threads :
          /\ InCall(t) => Len(proc[t].stack) + 1 <= Height(snap[proc[t].start]) + 1
          /\ proc[t].pc = "done" => ~empty(heap, proc[t].node))
  /\ [][\A t \in Threads :
          /\ Acting(t) /\ proc[t].pc = "compare" /\ proc'[t].pc = "inner"
               => /\ proc[t].node # EmptyNode
                  /\ proc'[t].node \in {left(heap, proc[t].node), right(heap, proc[t].node)}
          /\ Acting(t) /\ proc[t].pc \in {"inner", "compare"} /\ proc'[t].pc = "return"
               => \/ proc[t].node = EmptyNode
                  \/ /\ ~comparator(proc[t].k, key(heap, proc[t].node))
                     /\ ~comparator(key(heap, proc[t].node), proc[t].k)]_vars

\* The descent of a call on a tree of height two has reached the empty node below
\* the lowest level: the third InnerInsert of the call.
C13_Witness ==
  \E t \in Threads :
    /\ proc[t].pc = "inner"
    /\ proc[t].node = EmptyNode
    /\ Height(snap[proc[t].start]) = 2
    /\ Len(proc[t].stack) = 2

(***************************************************************************)
(* Which nodes a call copies and which it shares (ShapeSpec).  The last    *)
(* call of the caller is run on a heap holding prev: the nodes of prev are *)
(* the <<0, p>>, the Reps the call allocates are the <<1, i>>.             *)
(***************************************************************************)
\* The heap after the last call and the root it returned.
LastCall == insert(Load(prev, 1), At(prev, 1), arg[1], arg[2], 1)

\* The non-empty nodes reachable from n.
Nodes(h, n) == Reach(h, n) \ {EmptyNode}

\* The search path from n towards key k: the non-empty receivers of the nested
\* InnerInserts, down to the node that holds k if there is one.
RECURSIVE SearchPath(_, _, _)
SearchPath(h, n, k) ==
  IF empty(h, n)
  THEN {}
  ELSE IF comparator(k, key(h, n))
  THEN {n} \cup SearchPath(h, left(h, n), k)
  ELSE IF comparator(key(h, n), k)
  THEN {n} \cup SearchPath(h, right(h, n), k)
  ELSE {n}

\* The nodes of prev on the search path of the last call, those off it, and the
\* non-empty children of the search-path nodes that are off it.
PathOfCall == SearchPath(Load(prev, 1), At(prev, 1), arg[1])
OffPath ==
  LET h1 == Load(prev, 1)
  IN  Nodes(h1, At(prev, 1)) \ SearchPath(h1, At(prev, 1), arg[1])
Siblings ==
  LET h1 == Load(prev, 1)
      path == SearchPath(h1, At(prev, 1), arg[1])
  IN  (UNION {{left(h1, p), right(h1, p)} : p \in path} \ path) \ {EmptyNode}

\* The statement of C14 as written: for T2 = T1.insert(k, v, cmp) every node of T1
\* off the search path is a node of T2 (the same Rep), and no Rep the call
\* allocates holds the entry of a node of T1 off the search path.
C14_OnlyPathCopied ==
  Called =>
    LET r == LastCall
        h1 == Load(prev, 1)
        off == OffPath
    IN  /\ off \subseteq Nodes(r.h, r.node)
        /\ \A f \in AllocatedBy(r.h, 1) :
             \A n \in off : r.h[f].entry # h1[n].entry

\* C14 (amended): path copying. For T2 = T1.insert(k, v, cmp) no node of T1 on
\* the search path is a node of T2; a node of T1 off the search path is a node of
\* T2 (the same Rep) unless it is a Red child of a search-path node, and then T2
\* holds either it or a newly allocated Black copy of it with the same entry,
\* size and children; the call allocates no other Rep with the entry of a node
\* off the search path, and the Reps of T1 are left as they were.
C14_PathCopy ==
  Called =>
    LET r == LastCall
        h1 == Load(prev, 1)
        T2 == Nodes(r.h, r.node)
        off == OffPath
        Flipped == {n \in Siblings : red(h1, n) /\ n \notin T2}
    IN  /\ PathOfCall \cap T2 = {}
        /\ off \ Flipped \subseteq T2
        /\ \A n \in Flipped :
             \E f \in T2 : f[1] = 1 /\ r.h[f] = [h1[n] EXCEPT !.color = Black]
        /\ \A f \in AllocatedBy(r.h, 1) :
             \A n \in off \ Flipped : r.h[f].entry # h1[n].entry
        /\ \A n \in DOMAIN h1 : r.h[n] = h1[n]

\* The last insert added a key next to a Red node of prev that is not on the
\* search path and has children: T2 holds a copy of that node and not the node,
\* and shares the children.
C14_Witness ==
  /\ CalledNew
  /\ \E n \in Siblings :
       /\ n \notin Nodes(LastCall.h, LastCall.node)
       /\ ~empty(Load(prev, 1), left(Load(prev, 1), n))
       /\ left(Load(prev, 1), n) \in Nodes(LastCall.h, LastCall.node)

(***************************************************************************)
(* The steps of FixUp within a call (ShapeSpec).                           *)
(***************************************************************************)
\* The nested InnerInserts of the last call of the caller, the outermost first,
\* and those of them that called FixUp.
LastLevels ==
  IF Called
  THEN InnerInsertLevels(Load(prev, 1), At(prev, 1), arg[1], arg[2], 1)
  ELSE <<>>
FixUpCalled(l) == l.fix
LastFixUps == SelectSeq(LastLevels, FixUpCalled)

\* The heap of a level that called FixUp before the first, second and third test
\* of FixUp; x is l.node.
BeforeRotateLeft(l) == FixSize(l.pre, l.node)
BeforeRotateRight(l) == FixRotateLeft(BeforeRotateLeft(l), l.node, 1)
BeforeFlipColor(l) == FixRotateRight(BeforeRotateRight(l), l.node, 1)

\* RotateLeft on node X of heap h, as stated: with L and R the children of X and
\* RL, RR those of R, X then holds R's entry with the color and size it had, its
\* left is a newly allocated Red node holding X's entry over L and RL with size
\* L.size + 1 + RL.size, its right is RR; the entries below X in order and the size
\* of X are as before, and no other Rep has changed.
RotateLeftAsStated(h, X) ==
  LET h2 == RotateLeft(h, X, 1)
      L == left(h, X)
      R == right(h, X)
      new == left(h2, X)
  IN  /\ h2[X].entry = h[R].entry
      /\ h2[X].color = h[X].color
      /\ h2[X].size = h[X].size
      /\ new \notin DOMAIN h
      /\ h2[new] = [entry |-> h[X].entry, color |-> Red,
                    size |-> size(h, L) + 1 + size(h, left(h, R)),
                    left |-> L, right |-> left(h, R)]
      /\ right(h2, X) = right(h, R)
      /\ InOrder(Abs(h2, X)) = InOrder(Abs(h, X))
      /\ size(h2, X) = size(h2, new) + 1 + size(h2, right(h2, X))
      /\ \A n \in DOMAIN h \ {X} : h2[n] = h[n]

\* RotateRight on node X of heap h, as stated: the mirror image.
RotateRightAsStated(h, X) ==
  LET h2 == RotateRight(h, X, 1)
      L == left(h, X)
      R == right(h, X)
      new == right(h2, X)
  IN  /\ h2[X].entry = h[L].entry
      /\ h2[X].color = h[X].color
      /\ h2[X].size = h[X].size
      /\ new \notin DOMAIN h
      /\ h2[new] = [entry |-> h[X].entry, color |-> Red,
                    size |-> size(h, right(h, L)) + 1 + size(h, R),
                    left |-> right(h, L), right |-> R]
      /\ left(h2, X) = left(h, L)
      /\ InOrder(Abs(h2, X)) = InOrder(Abs(h, X))
      /\ size(h2, X) = size(h2, left(h2, X)) + 1 + size(h2, new)
      /\ \A n \in DOMAIN h \ {X} : h2[n] = h[n]

\* C15: rotation structure. RotateLeft and RotateRight do what is stated above,
\* on every node with a non-empty right (left) child of the tree the caller holds
\* and at every rotation FixUp made in the last call.
C15_Rotation ==
  LET h == Load(tree, 1)
      calls == LastFixUps
  IN  /\ \A X \in Nodes(h, At(tree, 1)) :
           /\ ~empty(h, right(h, X)) => RotateLeftAsStated(h, X)
           /\ ~empty(h, left(h, X)) => RotateRightAsStated(h, X)
      /\ \A i \in 1..Len(calls) :
           LET x == calls[i].node
               h0 == BeforeRotateLeft(calls[i])
               h1 == FixRotateLeft(h0, x, 1)
           IN  /\ NeedRotateLeft(h0, x) => RotateLeftAsStated(h0, x)
               /\ NeedRotateRight(h1, x) => RotateRightAsStated(h1, x)

\* The last call rotated left a node whose L, RL and RR are all non-empty and
\* then rotated right a node whose LL, LR and R are all non-empty.
C15_Witness ==
  /\ CalledNew
  /\ \E i \in 1..Len(LastFixUps) :
       LET x == LastFixUps[i].node
           h == BeforeRotateLeft(LastFixUps[i])
       IN  /\ NeedRotateLeft(h, x)
           /\ ~empty(h, left(h, x))
           /\ ~empty(h, left(h, right(h, x)))
           /\ ~empty(h, right(h, right(h, x)))
  /\ \E i \in 1..Len(LastFixUps) :
       LET x == LastFixUps[i].node
           h == BeforeRotateRight(LastFixUps[i])
       IN  /\ NeedRotateRight(h, x)
           /\ ~empty(h, right(h, x))
           /\ ~empty(h, right(h, left(h, x)))
           /\ ~empty(h, left(h, left(h, x)))

\* C16: flip direction. Whenever FixUp applies FlipColor in an insert on a tree
\* reached by inserts, the node is Black and both its children are Red and not
\* empty; after the flip the node is Red and both children are Black; the entry
\* and the size of the node and the black height of the subtree are as before.
C16_FlipDirection ==
  LET calls == LastFixUps
  IN  \A i \in 1..Len(calls) :
    LET x == calls[i].node
        h == BeforeFlipColor(calls[i])
        h2 == FixFlipColor(h, x, 1)
    IN  h2 # h =>
          /\ ~red(h, x)
          /\ red(h, left(h, x)) /\ red(h, right(h, x))
          /\ ~empty(h, left(h, x)) /\ ~empty(h, right(h, x))
          /\ red(h2, x)
          /\ ~red(h2, left(h2, x)) /\ ~red(h2, right(h2, x))
          /\ h2[x].entry = h[x].entry
          /\ h2[x].size = h[x].size
          /\ Cardinality(BlackCounts(Abs(h, x))) = 1
          /\ BlackCounts(Abs(h2, x)) = BlackCounts(Abs(h, x))

\* The last call flipped the colors of a node below the root, after a rotation at
\* that node or without one.
C16_Witness ==
  /\ CalledNew
  /\ \E i \in 2..Len(LastFixUps) :
       /\ NeedFlipColor(BeforeFlipColor(LastFixUps[i]), LastFixUps[i].node)
       /\ ~red(BeforeFlipColor(LastFixUps[i]), LastFixUps[i].node)
       /\ size(BeforeFlipColor(LastFixUps[i]), LastFixUps[i].node) = 3

\* The subtree a level returned, and the subtree of its receiver.
Returned(l) == Abs(l.h, l.node)
Received(l) == Abs(Load(prev, 1), l.n)

\* The Red nodes of T that have a Red left child.
RedRed(T) == {N \in Subtrees(T) : IsRed(N) /\ IsRed(N.left)}

\* C17: fix-up postcondition at every level. The subtree an InnerInsert of an
\* insert returns has no Red right child at any node, its root does not have two
\* Red children, and the only Red node with a Red child it may hold is its root
\* (with a Red left child); the tree insert returns holds no such pair.  (The
\* levels are those of InnerInsert: the outermost one returns what InnerInsert on
\* the root returns, and the receivers are the search path and the empty node
\* below it.)
C17_LevelPost ==
  LET levels == LastLevels
  IN  /\ \A i \in 1..Len(levels) :
           LET S == Returned(levels[i])
           IN  /\ \A N \in Subtrees(S) : ~IsRed(N.right)
               /\ ~(IsRed(S.left) /\ IsRed(S.right))
               /\ RedRed(S) \subseteq {S}
      /\ RedRed(tree) = {}
      /\ Called =>
           /\ [h |-> levels[1].h, node |-> levels[1].node]
                = InnerInsert(Load(prev, 1), At(prev, 1), arg[1], arg[2], 1)
           /\ {levels[i].n : i \in 1..Len(levels)} \ {EmptyNode} = PathOfCall

\* In the last call, on a tree of at least four entries, an InnerInsert below the
\* root returned a Red node with a Red left child.
C17_Witness ==
  /\ CalledNew
  /\ prev.size >= 4
  /\ \E i \in 2..Len(LastLevels) : RedRed(Returned(LastLevels[i])) # {}

\* C18: black height below the root. Every InnerInsert of an insert returns a
\* subtree with the black height of its receiver; the black height of the tree
\* insert returns is one more than before if the outermost InnerInsert returned a
\* Red root (which insert recolors Black), and the same as before otherwise.
C18_BlackHeightKept ==
  LET levels == LastLevels
  IN  /\ \A i \in 1..Len(levels) :
           BlackCounts(Returned(levels[i])) = BlackCounts(Received(levels[i]))
      /\ Called =>
           /\ red(levels[1].h, levels[1].node)
                => BlackCounts(tree) = {b + 1 : b \in BlackCounts(prev)} /\ ~IsRed(tree)
           /\ ~red(levels[1].h, levels[1].node)
                => BlackCounts(tree) = BlackCounts(prev)

\* In the last call an InnerInsert below the root returned a Red node over two
\* Black children where its receiver was Black, and the outermost one returned a
\* Black root.
C18_Witness ==
  /\ CalledNew
  /\ ~IsRed(Returned(LastLevels[1]))
  /\ \E i \in 2..Len(LastLevels) :
       /\ ~IsRed(Received(LastLevels[i]))
       /\ IsRed(Returned(LastLevels[i]))
       /\ Returned(LastLevels[i]).size = 3

\* C19: bounded copying around the search path. For T2 = T1.insert(k, v, cmp),
\* every node of T1 that is neither on the search path towards k nor a child of a
\* search-path node is a node of T2, the same Rep with the same fields; every
\* newly allocated node of T2 holds the entry inserted (the new leaf, or the copy
\* of the node that held k), or the key of a search-path node (a copy of it, or
\* the node a rotation made for its entry), or is the Black copy FlipColor made
\* of a Red child of a search-path node.
C19_BoundedCopy ==
  Called =>
    LET r == LastCall
        h1 == Load(prev, 1)
        T2 == Nodes(r.h, r.node)
        PathKeys == {key(h1, p) : p \in PathOfCall}
        sib == Siblings
    IN  /\ \A n \in OffPath \ sib : n \in T2 /\ r.h[n] = h1[n]
        /\ \A f \in T2 \ DOMAIN h1 :
             \/ r.h[f].entry = arg
             \/ key(r.h, f) \in PathKeys
             \/ \E s \in sib :
                  red(h1, s) /\ r.h[f] = [h1[s] EXCEPT !.color = Black]

\* The last call, of a new key, rotated a node left, and T2 shares with T1 at
\* least two nodes that are neither on the search path nor children of it.
C19_Witness ==
  /\ CalledNew
  /\ \E i \in 1..Len(LastFixUps) :
       NeedRotateLeft(BeforeRotateLeft(LastFixUps[i]), LastFixUps[i].node)
  /\ Cardinality((OffPath \ Siblings) \cap Nodes(LastCall.h, LastCall.node)) >= 2

====
